---- MODULE Spec2Model ----
(***************************************************************************)
(* Model of cbpipeline/qc_report.py: the BED interval reader/merger        *)
(* (readBedFile, totalBedIntervalLength, AlignmentStatsFile.loadFromFile)  *)
(* and the VCF statistics pass (VcfStatsGenerator).                        *)
(*                                                                         *)
(* Two specifications share the module:                                    *)
(*   SpecBed  the interval pass over one BED file                          *)
(*   Spec     the variant statistics pass over one VCF file                *)
(***************************************************************************)
EXTENDS Integers, Sequences, FiniteSets, TLC

\* Python's None
None == "None"

(***************************************************************************)
(* Bounds                                                                  *)
(***************************************************************************)
\* positions of a BED record lie in 0..MaxPos
MaxPos == 3
\* a BED file holds at most MaxIntervals lines
MaxIntervals == 3
\* a VCF file holds at most MaxRecords lines
MaxRecords == 2

BedRefs == {"chr1", "chr2"}

VARIABLES
    \* ---- BED pass ----
    bedLines,          \* the lines of the BED file read so far, each <<ref, beginPos, endPos>>
    mergeOverlapping,  \* readBedFile's parameter
    current,           \* readBedFile's local `current`
    yielded,           \* the records readBedFile has yielded so far
    result,            \* totalBedIntervalLength's local `result`
    totalBedLength,    \* AlignmentStatsFile.totalBedLength
    remerged,          \* what a second readBedFile(.., True) pass over `yielded` yields
    bedPc,             \* "loop" | "exhausted" | "done" | "remerged"
    \* ---- VCF pass ----
    lineFields,        \* run's loop variables: the line last taken and its fields
    nLines,            \* how many lines run has taken from the file
    vcf_stats,         \* VcfStatsGenerator.vcf_stats, a VcfStats
    vcfPc,             \* "loop" | "returned"
    \* history of the VCF pass, for stating the properties
    accepted,          \* records neither header, nor without GT, nor ref/ref
    acceptedSnvShaped, \* accepted records with both alleles of length 1
    acceptedHomSnv     \* accepted homozygous records, allele and ref of length 1

bedVars == <<bedLines, mergeOverlapping, current, yielded, result,
             totalBedLength, remerged, bedPc>>

vcfVars == <<lineFields, nLines, vcf_stats, vcfPc, accepted, acceptedSnvShaped,
             acceptedHomSnv>>

vars == <<bedVars, vcfVars>>

(***************************************************************************)
(* BedRecord                                                               *)
(***************************************************************************)
\* BedRecord.__init__
BedRecord(ref, beginPos, endPos) ==
    [ref |-> ref, beginPos |-> beginPos, endPos |-> endPos]

\* BedRecord() with all fields None
NullBedRecord == [ref |-> None, beginPos |-> None, endPos |-> None]

\* BedRecord.null
null(self) == self.ref = None

\* BedRecord.overlapsWith
overlapsWith(self, other) ==
    /\ self.ref = other.ref
    /\ self.beginPos < other.endPos
    /\ other.beginPos < self.endPos

Min(a, b) == IF a < b THEN a ELSE b
Max(a, b) == IF a > b THEN a ELSE b

\* merge as it would be with the end taken from the other record
merge_OtherEnd(self, other) ==
    [self EXCEPT !.beginPos = Min(self.beginPos, other.beginPos),
                 !.endPos   = other.endPos]

\* BedRecord.merge (the assert self.ref == other.ref is guaranteed by the
\* caller, which merges only after overlapsWith)
merge(self, other) ==
    [self EXCEPT !.beginPos = Min(self.beginPos, other.beginPos),
                 !.endPos   = Max(self.endPos, other.endPos)]

\* BedRecord.length
length(self) == self.endPos - self.beginPos

(***************************************************************************)
(* readBedFile: a generator.  ReadBedFileStep is one iteration of its      *)
(* `for line in f` loop: the new value of `current` and the records        *)
(* yielded during the iteration (none or one).  ReadBedFileEnd is the code *)
(* after the loop.                                                         *)
(***************************************************************************)
\* int(beginPos), int(endPos) of the split line
ParseBedLine(bedLine) == BedRecord(bedLine[1], bedLine[2], bedLine[3])

ReadBedFileStep(mergeOv, cur, bedLine) ==
    LET record == ParseBedLine(bedLine) IN
    IF ~mergeOv
      THEN [current |-> cur, out |-> <<record>>]
      ELSE IF null(cur)
        THEN [current |-> record, out |-> <<>>]
        ELSE IF ~null(cur) /\ overlapsWith(cur, record)
          THEN [current |-> merge(cur, record), out |-> <<>>]
          ELSE [current |-> record, out |-> <<cur>>]

\* readBedFile's end as it would be without the last yield
ReadBedFileEnd_NoFlush(mergeOv, cur) == <<>>

ReadBedFileEnd(mergeOv, cur) ==
    IF mergeOv /\ ~null(cur) THEN <<cur>> ELSE <<>>

\* the whole generator run over a file: every record it yields, in order
RECURSIVE ReadBedFileFrom(_, _, _)
ReadBedFileFrom(mergeOv, cur, lines) ==
    IF lines = <<>>
      THEN ReadBedFileEnd(mergeOv, cur)
      ELSE LET s == ReadBedFileStep(mergeOv, cur, Head(lines))
           IN  s.out \o ReadBedFileFrom(mergeOv, s.current, Tail(lines))

readBedFile(lines, mergeOv) == ReadBedFileFrom(mergeOv, NullBedRecord, lines)

\* a yielded record written back as a BED line
AsBedLine(r) == <<r.ref, r.beginPos, r.endPos>>
AsBedLines(rs) == [i \in 1..Len(rs) |-> AsBedLine(rs[i])]

\* the argument totalBedIntervalLength passes for mergeOverlapping: it calls
\* readBedFile(path), so the parameter takes its default
TotalMergeOverlapping == FALSE

(***************************************************************************)
(* Text.  A str is a tuple of one-character strings; a VCF line is the     *)
(* tuple of its tab-separated columns, i.e. line.strip().split('\t').      *)
(***************************************************************************)
\* str.startswith
startswith(s, prefix) ==
    /\ Len(s) >= Len(prefix)
    /\ SubSeq(s, 1, Len(prefix)) = prefix

\* str.split(sep) for a one-character sep: the list of the pieces
RECURSIVE split(_, _)
split(s, sep) ==
    IF s = <<>>
      THEN << <<>> >>
      ELSE LET rest == split(Tail(s), sep) IN
           IF Head(s) = sep
             THEN << <<>> >> \o rest
             ELSE << <<Head(s)>> \o Head(rest) >> \o Tail(rest)

\* str.split(sep, 1): split at the first sep only
RECURSIVE split1(_, _)
split1(s, sep) ==
    IF s = <<>>
      THEN << <<>> >>
      ELSE IF Head(s) = sep
        THEN << <<>>, Tail(s) >>
        ELSE LET rest == split1(Tail(s), sep) IN
             << <<Head(s)>> \o Head(rest) >> \o Tail(rest)

UpperChar(c) ==
    CASE c = "a" -> "A"
      [] c = "c" -> "C"
      [] c = "g" -> "G"
      [] c = "t" -> "T"
      [] OTHER   -> c

\* str.upper
upper(s) == [i \in 1..Len(s) |-> UpperChar(s[i])]

DigitValue(c) ==
    CASE c = "0" -> 0
      [] c = "1" -> 1
      [] c = "2" -> 2
      [] c = "3" -> 3
      [] c = "9" -> 9

Digits == {"0", "1", "2", "3", "9"}

\* int(s) does not raise ValueError: an optional sign and decimal digits
IntParses(s) ==
    LET body == IF s # <<>> /\ Head(s) \in {"-", "+"} THEN Tail(s) ELSE s IN
    /\ body # <<>>
    /\ \A i \in 1..Len(body) : body[i] \in Digits

\* int(s) for a str that int parses
RECURSIVE int(_)
int(s) ==
    IF Head(s) = "-"
      THEN 0 - int(Tail(s))
      ELSE IF Head(s) = "+"
        THEN int(Tail(s))
        ELSE IF Len(s) = 1
          THEN DigitValue(s[1])
          ELSE 10 * int(SubSeq(s, 1, Len(s) - 1)) + DigitValue(s[Len(s)])

\* list[i] for a Python int i: a negative i counts from the end
PyIndex(list, i) == IF i >= 0 THEN list[i + 1] ELSE list[Len(list) + i + 1]

\* list[i] does not raise IndexError
PyIndexInRange(list, i) == 0 - Len(list) <= i /\ i < Len(list)

\* the elements of a list, as a set
SetOf(seq) == { seq[i] : i \in 1..Len(seq) }

GT == <<"G", "T">>
DB == <<"D", "B">>
EFFECT == <<"E", "F", "F", "E", "C", "T">>
\* the TRANS set of _countTrans
TRANS == { <<"G", "A">>, <<"A", "G">>, <<"T", "C">>, <<"C", "T">> }

(***************************************************************************)
(* VcfStats                                                                *)
(***************************************************************************)
\* VcfStats.__init__ (file_name and dbsnp_rare_count are never updated by
\* the pass and are left out)
NewVcfStats ==
    [snv_count |-> 0, no_dbsnp_count |-> 0, dbsnp_count |-> 0,
     del_count |-> 0, heterozygous |-> 0, homozygous |-> 0, ins_count |-> 0,
     num_annos |-> <<>>, transitions |-> 0, transversions |-> 0]

\* int(b) of a bool
BoolInt(b) == IF b THEN 1 ELSE 0

(***************************************************************************)
(* VcfStatsGenerator: decoding of one line                                 *)
(***************************************************************************)
\* the ten columns run unpacks
ColRef(l)        == l[4]
ColAlt(l)        == l[5]
ColInfo(l)       == l[8]
ColFormat(l)     == l[9]
ColIndividual(l) == l[10]

\* line.startswith('#')
IsHeader(l) == startswith(l[1], <<"#">>)

\* fmt = dict([(key, i) for i, key in enumerate(format_.split(':'))]):
\* key -> 0-based index, the last occurrence of a key winning
FmtDict(format_) ==
    LET keys == split(format_, ":") IN
    [key \in SetOf(keys) |->
        CHOOSE i \in 0..(Len(keys) - 1) :
            /\ keys[i + 1] = key
            /\ \A j \in 0..(Len(keys) - 1) : keys[j + 1] = key => j <= i]

\* fmt.get('GT') is None
NoGenotype(fmt) == GT \notin DOMAIN fmt

\* info = set(info_.split(';'))
InfoSet(info_) == SetOf(split(info_, ";"))

\* VcfStatsGenerator._getGenotypes; map returns a list (Python 2), one allele
\* for every '/'-separated index, however many there are
getGenotypes(ref, fmt, alts, calls) ==
    LET indices   == split(calls[fmt[GT] + 1], "/")
        genotypes == [i \in 1..Len(indices) |-> int(indices[i])]
        alleles   == <<ref>> \o alts
    IN  [i \in 1..Len(genotypes) |-> PyIndex(alleles, genotypes[i])]

\* the exception _getGenotypes raises, None when it returns
getGenotypesRaises(ref, fmt, alts, calls) ==
    IF ~PyIndexInRange(calls, fmt[GT])
      THEN "IndexError"
      ELSE LET indices == split(calls[fmt[GT] + 1], "/")
               alleles == <<ref>> \o alts
           IN  IF \E i \in 1..Len(indices) : ~IntParses(indices[i])
                 THEN "ValueError"
                 ELSE IF \E i \in 1..Len(indices) :
                            ~PyIndexInRange(alleles, int(indices[i]))
                   THEN "IndexError"
                   ELSE None

\* the names run binds at the top of its loop body for a line: the columns
\* it unpacks, the splits it makes of them and, when there is a GT field,
\* gt (of a header line run reads nothing but the '#').  exc is the
\* exception raised on the way, None when there is none: ValueError from
\* the unpacking of fewer than ten columns, or what _getGenotypes raises.
VcfRecord(l) ==
    IF IsHeader(l)
      THEN [line |-> l, header |-> TRUE, ref |-> <<>>, fmt |-> <<>>,
            info |-> {}, call |-> <<>>, alts |-> <<>>, gt |-> <<>>,
            exc |-> None]
      ELSE IF Len(l) < 10
        THEN [line |-> l, header |-> FALSE, ref |-> <<>>, fmt |-> <<>>,
              info |-> {}, call |-> <<>>, alts |-> <<>>, gt |-> <<>>,
              exc |-> "ValueError"]
        ELSE LET fmt  == FmtDict(ColFormat(l))
                 call == split(ColIndividual(l), ":")
                 alts == split(ColAlt(l), ",")
                 exc  == IF NoGenotype(fmt)
                           THEN None
                           ELSE getGenotypesRaises(ColRef(l), fmt, alts, call)
             IN  [line |-> l, header |-> FALSE, ref |-> ColRef(l),
                  fmt  |-> fmt,
                  info |-> InfoSet(ColInfo(l)),
                  call |-> call,
                  alts |-> alts,
                  gt   |-> IF NoGenotype(fmt) \/ exc # None
                             THEN <<>>
                             ELSE getGenotypes(ColRef(l), fmt, alts, call),
                  exc  |-> exc]

\* no line taken yet
NoRecord == VcfRecord(<< <<"#">> >>)

\* run's test `ref == gt[0] and ref == gt[1]` raises IndexError: a gt of one
\* allele that equals ref (`and` does not look at gt[1] otherwise)
NotVariantRaises(ref, gt) == Len(gt) < 2 /\ ref = gt[1]

\* run's test `ref == gt[0] and ref == gt[1]`
NotVariant(ref, gt) == ref = gt[1] /\ ref = gt[2]

(***************************************************************************)
(* VcfStatsGenerator: the five counting rules, each from a VcfStats to the *)
(* updated VcfStats                                                        *)
(***************************************************************************)
MinLen(genotypes) ==
    CHOOSE n \in { Len(genotypes[i]) : i \in 1..Len(genotypes) } :
        \A i \in 1..Len(genotypes) : n <= Len(genotypes[i])
MaxLen(genotypes) ==
    CHOOSE n \in { Len(genotypes[i]) : i \in 1..Len(genotypes) } :
        \A i \in 1..Len(genotypes) : n >= Len(genotypes[i])

\* _countDbSnp as it would be testing the shortest allele only
countDbSnp_MinOnly(stats, ref, fmt, info, alts, calls) ==
    LET genotypes == getGenotypes(ref, fmt, alts, calls)
        min_len   == MinLen(genotypes)
    IN  IF min_len # 1
          THEN stats
          ELSE [stats EXCEPT
                  !.dbsnp_count    = @ + BoolInt(DB \in info),
                  !.no_dbsnp_count = @ + BoolInt(DB \notin info)]

\* VcfStatsGenerator._countDbSnp
countDbSnp(stats, ref, fmt, info, alts, calls) ==
    LET genotypes == getGenotypes(ref, fmt, alts, calls)
        min_len   == MinLen(genotypes)
        max_len   == MaxLen(genotypes)
    IN  IF min_len # 1 \/ max_len # 1
          THEN stats
          ELSE [stats EXCEPT
                  !.dbsnp_count    = @ + BoolInt(DB \in info),
                  !.no_dbsnp_count = @ + BoolInt(DB \notin info)]

\* _countHomHet as it would be calling homozygous every genotype without
\* a ref allele
countHomHet_NoRef(stats, ref, fmt, alts, calls) ==
    LET genotypes == getGenotypes(ref, fmt, alts, calls)
        is_hom    == genotypes[1] # ref /\ genotypes[2] # ref
    IN  [stats EXCEPT !.heterozygous = @ + BoolInt(~is_hom),
                      !.homozygous   = @ + BoolInt(is_hom)]

\* VcfStatsGenerator._countHomHet
countHomHet(stats, ref, fmt, alts, calls) ==
    LET genotypes == getGenotypes(ref, fmt, alts, calls)
        is_hom    == genotypes[1] = genotypes[2]
    IN  [stats EXCEPT !.heterozygous = @ + BoolInt(~is_hom),
                      !.homozygous   = @ + BoolInt(is_hom)]

\* _countVariantKind's loop body as it would be without `skip calling twice`
VariantKindStep_NoDedup(stats, ref, gts, i) ==
    LET gt == gts[i + 1] IN
    IF gt = ref
      THEN stats
      ELSE IF Len(gt) = 1 /\ Len(ref) = 1
        THEN [stats EXCEPT !.snv_count = @ + 1]
        ELSE IF Len(gt) > Len(ref)
          THEN [stats EXCEPT !.ins_count = @ + 1]
          ELSE IF Len(gt) < Len(ref)
            THEN [stats EXCEPT !.del_count = @ + 1]
            ELSE stats

\* one iteration of _countVariantKind's loop, i 0-based
VariantKindStep(stats, ref, gts, i) ==
    LET gt == gts[i + 1] IN
    IF i = 1 /\ gts[1] = gts[2]
      THEN stats
      ELSE IF gt = ref
        THEN stats
        ELSE IF Len(gt) = 1 /\ Len(ref) = 1
          THEN [stats EXCEPT !.snv_count = @ + 1]
          ELSE IF Len(gt) > Len(ref)
            THEN [stats EXCEPT !.ins_count = @ + 1]
            ELSE IF Len(gt) < Len(ref)
              THEN [stats EXCEPT !.del_count = @ + 1]
              ELSE stats

RECURSIVE VariantKindLoop(_, _, _, _)
VariantKindLoop(stats, ref, gts, i) ==
    IF i >= Len(gts)
      THEN stats
      ELSE VariantKindLoop(VariantKindStep(stats, ref, gts, i), ref, gts, i + 1)

\* VcfStatsGenerator._countVariantKind
countVariantKind(stats, ref, fmt, alts, calls) ==
    VariantKindLoop(stats, ref, getGenotypes(ref, fmt, alts, calls), 0)

\* _countTrans's loop body as it would be with _countVariantKind's
\* `skip calling twice`
TransStep_Dedup(stats, ref, gts, i) ==
    LET gt  == gts[i + 1]
        var == upper(gt \o ref)
    IN  IF i = 1 /\ gts[1] = gts[2]
          THEN stats
          ELSE IF Len(ref) # 1 \/ Len(gt) # 1
            THEN stats
            ELSE IF gt = ref
              THEN stats
              ELSE [stats EXCEPT
                      !.transitions   = @ + BoolInt(var \in TRANS),
                      !.transversions = @ + BoolInt(var \notin TRANS)]

\* one iteration of _countTrans's loop, i 0-based
TransStep(stats, ref, gts, i) ==
    LET gt  == gts[i + 1]
        var == upper(gt \o ref)
    IN  IF Len(ref) # 1 \/ Len(gt) # 1
          THEN stats
          ELSE IF gt = ref
            THEN stats
            ELSE [stats EXCEPT
                    !.transitions   = @ + BoolInt(var \in TRANS),
                    !.transversions = @ + BoolInt(var \notin TRANS)]

RECURSIVE TransLoop(_, _, _, _)
TransLoop(stats, ref, gts, i) ==
    IF i >= Len(gts)
      THEN stats
      ELSE TransLoop(TransStep(stats, ref, gts, i), ref, gts, i + 1)

\* VcfStatsGenerator._countTrans
countTrans(stats, ref, fmt, alts, calls) ==
    TransLoop(stats, ref, getGenotypes(ref, fmt, alts, calls), 0)

\* num_annos.setdefault(v, 0); num_annos[v] += 1
AnnoIncrement(num_annos, v) ==
    IF v \in DOMAIN num_annos
      THEN [num_annos EXCEPT ![v] = @ + 1]
      ELSE num_annos @@ (v :> 1)

RECURSIVE AnnoValues(_, _)
AnnoValues(num_annos, values) ==
    IF values = <<>>
      THEN num_annos
      ELSE AnnoValues(AnnoIncrement(num_annos, Head(values)), Tail(values))

\* the test of _countJannovar that selects the annotation fields
IsEffectField(field) == startswith(field, EFFECT)

\* the body of _countJannovar's loop for one field of info
JannovarField(num_annos, field) ==
    IF IsEffectField(field)
      THEN LET kv == split1(field, "=") IN
           AnnoValues(num_annos, split(kv[2], ","))
      ELSE num_annos

\* `for field in info`: info is a set, the increments commute
RECURSIVE JannovarLoop(_, _)
JannovarLoop(num_annos, info) ==
    IF info = {}
      THEN num_annos
      ELSE LET field == CHOOSE f \in info : TRUE IN
           JannovarLoop(JannovarField(num_annos, field), info \ {field})

\* VcfStatsGenerator._countJannovar
countJannovar(stats, info) ==
    [stats EXCEPT !.num_annos = JannovarLoop(@, info)]

\* the five calls at the end of run's loop body
CountRecord(stats, ref, fmt, info, alts, call) ==
    LET s1 == countDbSnp(stats, ref, fmt, info, alts, call)
        s2 == countHomHet(s1, ref, fmt, alts, call)
        s3 == countVariantKind(s2, ref, fmt, alts, call)
        s4 == countTrans(s3, ref, fmt, alts, call)
    IN  countJannovar(s4, info)

(***************************************************************************)
(* The lines a VCF file is made of                                         *)
(***************************************************************************)
MkLine(ref, alt, info_, format_, individual) ==
    << <<"1">>, <<"7">>, <<".">>, ref, alt, <<".">>, <<".">>,
       info_, format_, individual >>

HeaderLine == << <<"#", "C", "H", "R", "O", "M">> >>

RefCols == { <<"A">>, <<"A", "T">> }

AltCols ==
    { <<"G">>, <<"g">>, <<"T">>, <<"A", "T", "G">>, <<"G", "C">>,
      <<"A", ",", "G">>, <<"G", ",", "T">>, <<"G", ",", "A", "T", "G">> }

GtCols ==
    { <<"0", "/", "0">>, <<"0", "/", "1">>, <<"1", "/", "1">>,
      <<"1", "/", "2">> }

InfoCols ==
    { <<".">>,
      DB,
      <<"D", "B", "X">>,
      EFFECT \o <<"=", "a">>,
      EFFECT \o <<"=", "a", ",", "b">>,
      EFFECT \o <<"=", "a", ",", "a">>,
      EFFECT \o <<"X", "=", "b">>,
      <<"X", "=">> \o EFFECT,
      DB \o <<";">> \o EFFECT \o <<"=", "b">>,
      EFFECT \o <<"=", "a", ";">> \o EFFECT \o <<"=", "a">>,
      EFFECT \o <<"=", "a", ";">> \o EFFECT \o <<"=", "b", ";">> \o DB }

\* the info columns tried on the records that are skipped
SkipInfoCols ==
    { <<".">>, EFFECT \o <<"=", "a", ";">> \o EFFECT \o <<"=", "b", ";">> \o DB }

\* every genotype shape, with the dbSNP flag
GenotypeLines ==
    { MkLine(r, a, DB, GT, g) : r \in RefCols, a \in AltCols, g \in GtCols }

\* every info column on a het SNV; a hom deletion (ref AT), a ref/ref record
\* (ref A) and the same two without GT, with and without info tokens
InfoLines ==
    { MkLine(<<"A">>, <<"G">>, i, GT, <<"0", "/", "1">>) : i \in InfoCols }
    \cup { MkLine(r, <<"A">>, i, f, <<"1", "/", "1">>) :
             r \in RefCols, i \in SkipInfoCols, f \in { GT, <<"D", "P">> } }

\* the GT field at other places of the format column
FormatLines ==
    { MkLine(<<"A">>, <<"T">>, DB, <<"D", "P", ":", "G", "T">>,
             <<"9", ":">> \o g) : g \in GtCols }
    \cup { MkLine(<<"A">>, <<"T">>, DB, <<"G", "T", ":", "D", "P">>,
                  g \o <<":", "9">>) : g \in GtCols }
    \cup { MkLine(<<"A">>, <<"T">>, DB, <<"G", "T", ":", "G", "T">>,
                  <<"0", "/", "0", ":">> \o g) : g \in GtCols }

\* a record run decodes without raising: a GT sub-field holds two indices
\* into [ref] + alts
WellFormed(l) ==
    \/ IsHeader(l)
    \/ /\ Len(l) >= 10
       /\ LET fmt  == FmtDict(ColFormat(l))
              call == split(ColIndividual(l), ":")
              alts == split(ColAlt(l), ",")
          IN  NoGenotype(fmt) \/
              /\ fmt[GT] + 1 <= Len(call)
              /\ LET indices == split(call[fmt[GT] + 1], "/") IN
                 /\ Len(indices) = 2
                 /\ \A k \in 1..2 :
                      /\ Len(indices[k]) = 1
                      /\ indices[k][1] \in {"0", "1", "2"}
                      /\ int(indices[k]) <= Len(alts)

VcfLines ==
    { l \in {HeaderLine} \cup GenotypeLines \cup InfoLines \cup FormatLines :
        WellFormed(l) }

\* the lines as run unpacks them
VcfRecords == { VcfRecord(l) : l \in VcfLines }

\* lines of other shapes: fewer than ten columns, and GT sub-fields that are
\* not two indices into [ref] + alts
ShortLines ==
    { SubSeq(MkLine(<<"A">>, <<"G">>, DB, f, <<>>), 1, 9) :
        f \in {GT, <<"D", "P">>} }

OddGtCols ==
    { <<"0", "|", "1">>, <<".", "/", ".">>, <<"1", "/">>, <<>>,
      <<"0">>, <<"1">>,
      <<"0", "/", "1", "/", "1">>, <<"0", "/", "0", "/", "1">>,
      <<"1", "/", "1", "/", "1">>,
      <<"-", "1", "/", "1">>, <<"-", "1", "/", "-", "1">>,
      <<"-", "2", "/", "-", "2">>, <<"-", "3", "/", "1">>,
      <<"0", "/", "2">>, <<"9", "/", "1">> }

OddGtLines ==
    { MkLine(ref, <<"G">>, i, GT, g) :
        ref \in {<<"A">>}, i \in {DB, <<"X">>}, g \in OddGtCols }

\* a sample column with fewer sub-fields than the format column names
ShortSampleLines ==
    { MkLine(<<"A">>, <<"G">>, DB, <<"D", "P", ":">> \o GT, <<"9">>) }

DecodeLines ==
    (VcfLines \ GenotypeLines) \cup ShortLines \cup OddGtLines
        \cup ShortSampleLines

DecodeRecords == { VcfRecord(l) : l \in DecodeLines }

(***************************************************************************)
(* What the properties say of a record                                     *)
(***************************************************************************)
\* the two resolved genotype alleles of a record with a GT field
Genotypes(r) == r.gt

HasGT(r) == GT \in DOMAIN r.fmt

\* a record that is not a header line, has a GT format field and whose
\* genotype is not ref/ref
IsAccepted(r) ==
    /\ ~r.header
    /\ HasGT(r)
    /\ LET g == Genotypes(r) IN ~(g[1] = r.ref /\ g[2] = r.ref)

\* both resolved alleles have length 1
IsSnvShaped(r) ==
    LET g == Genotypes(r) IN Len(g[1]) = 1 /\ Len(g[2]) = 1

\* a homozygous call of a single-base allele against a single-base ref
IsHomSnv(r) ==
    LET g == Genotypes(r) IN
    g[1] = g[2] /\ Len(g[1]) = 1 /\ Len(r.ref) = 1

(***************************************************************************)
(* VcfStatsGenerator.run                                                   *)
(***************************************************************************)
\* `for line in self.f` hands the next line to the loop body
TakeLine(r) ==
    /\ vcfPc = "loop"
    /\ nLines < MaxRecords
    /\ lineFields' = r
    /\ nLines' = nLines + 1
    /\ vcfPc' = vcfPc
    /\ LET isAccepted == IsAccepted(r) IN
       /\ accepted' = accepted + BoolInt(isAccepted)
       /\ acceptedSnvShaped' =
            acceptedSnvShaped + BoolInt(isAccepted /\ IsSnvShaped(r))
       /\ acceptedHomSnv' =
            acceptedHomSnv + BoolInt(isAccepted /\ IsHomSnv(r))
    /\ UNCHANGED bedVars

\* an exception leaves the loop and run: no later line is read and nothing
\* is returned
RaiseAt(r) ==
    /\ vcfPc = "loop"
    /\ nLines < MaxRecords
    /\ lineFields' = r
    /\ nLines' = nLines + 1
    /\ vcfPc' = "aborted"
    /\ UNCHANGED <<accepted, acceptedSnvShaped, acceptedHomSnv>>
    /\ UNCHANGED bedVars

\* _countHomHet raises IndexError at genotypes[1]
countHomHetRaises(gt) == Len(gt) < 2

\* a header line: continue
HeaderLineStep(r) ==
    /\ r.header
    /\ TakeLine(r)
    /\ UNCHANGED vcf_stats

\* a record without GT in its format column: warning, continue
NoGenotypeStep(r) ==
    /\ ~r.header
    /\ r.exc = None
    /\ NoGenotype(r.fmt)
    /\ TakeLine(r)
    /\ UNCHANGED vcf_stats

\* a record whose genotype is ref/ref: warning, continue
NotVariantStep(r) ==
    /\ ~r.header
    /\ r.exc = None
    /\ ~NoGenotype(r.fmt)
    /\ ~NotVariantRaises(r.ref, r.gt)
    /\ NotVariant(r.ref, r.gt)
    /\ TakeLine(r)
    /\ UNCHANGED vcf_stats

\* a variant record: the five counting rules
CountStep(r) ==
    /\ ~r.header
    /\ r.exc = None
    /\ ~NoGenotype(r.fmt)
    /\ ~NotVariantRaises(r.ref, r.gt)
    /\ ~NotVariant(r.ref, r.gt)
    /\ ~countHomHetRaises(r.gt)
    /\ TakeLine(r)
    /\ vcf_stats' =
         CountRecord(vcf_stats, r.ref, r.fmt, r.info, r.alts, r.call)

\* the unpacking, _getGenotypes or the ref/ref test raises: the statistics
\* are as the lines before left them
RaiseInDecodeStep(r) ==
    /\ ~r.header
    /\ \/ r.exc # None
       \/ /\ r.exc = None
          /\ ~NoGenotype(r.fmt)
          /\ NotVariantRaises(r.ref, r.gt)
    /\ RaiseAt(r)
    /\ UNCHANGED vcf_stats

\* _countHomHet raises, after _countDbSnp has returned
RaiseInCountStep(r) ==
    /\ ~r.header
    /\ r.exc = None
    /\ ~NoGenotype(r.fmt)
    /\ ~NotVariantRaises(r.ref, r.gt)
    /\ ~NotVariant(r.ref, r.gt)
    /\ countHomHetRaises(r.gt)
    /\ RaiseAt(r)
    /\ vcf_stats' =
         countDbSnp(vcf_stats, r.ref, r.fmt, r.info, r.alts, r.call)

\* run over a file of records with two allele indices in every GT sub-field
RunHeader == \E r \in VcfRecords : HeaderLineStep(r)

RunNoGenotype == \E r \in VcfRecords : NoGenotypeStep(r)

\* the ref/ref test as it would be placed after the call of _countDbSnp
RunNotVariant_AfterDbSnp ==
    \E r \in VcfRecords :
        /\ ~r.header
        /\ ~NoGenotype(r.fmt)
        /\ NotVariant(r.ref, r.gt)
        /\ TakeLine(r)
        /\ vcf_stats' = countDbSnp(vcf_stats, r.ref, r.fmt, r.info, r.alts, r.call)

RunNotVariant == \E r \in VcfRecords : NotVariantStep(r)

RunCount == \E r \in VcfRecords : CountStep(r)

\* run over a file that also holds lines of any other shape
DecodeHeader == \E r \in DecodeRecords : HeaderLineStep(r)

DecodeNoGenotype == \E r \in DecodeRecords : NoGenotypeStep(r)

DecodeNotVariant == \E r \in DecodeRecords : NotVariantStep(r)

DecodeCount == \E r \in DecodeRecords : CountStep(r)

DecodeRaise == \E r \in DecodeRecords : RaiseInDecodeStep(r)

DecodeRaiseInCount == \E r \in DecodeRecords : RaiseInCountStep(r)

\* the file is exhausted: return self.vcf_stats
RunReturn ==
    /\ vcfPc = "loop"
    /\ vcfPc' = "returned"
    /\ UNCHANGED <<lineFields, nLines, vcf_stats, accepted, acceptedSnvShaped,
                   acceptedHomSnv>>
    /\ UNCHANGED bedVars

\* VcfStatsGenerator.__init__
InitVcf ==
    /\ lineFields = NoRecord
    /\ nLines = 0
    /\ vcf_stats = NewVcfStats
    /\ vcfPc = "loop"
    /\ accepted = 0
    /\ acceptedSnvShaped = 0
    /\ acceptedHomSnv = 0

(***************************************************************************)
(* The BED pass                                                            *)
(***************************************************************************)
BedLineSet ==
    { <<r, b, e>> : r \in BedRefs, b \in 0..MaxPos, e \in 0..MaxPos }

\* well-formed lines: endOffset > beginOffset
WellFormedBedLines == { l \in BedLineSet : l[3] > l[2] }

InitBed ==
    /\ bedLines = <<>>
    /\ mergeOverlapping \in BOOLEAN
    /\ current = NullBedRecord
    /\ yielded = <<>>
    /\ result = 0
    /\ totalBedLength = None
    /\ remerged = None
    /\ bedPc = "loop"

\* totalBedIntervalLength: one iteration of `for record in readBedFile(path)`,
\* the generator's iteration together with the loop body result += length
TotalBedLine ==
    /\ bedPc = "loop"
    /\ mergeOverlapping = TotalMergeOverlapping
    /\ Len(bedLines) < MaxIntervals
    /\ \E bedLine \in WellFormedBedLines :
         LET s == ReadBedFileStep(mergeOverlapping, current, bedLine) IN
         /\ bedLines' = Append(bedLines, bedLine)
         /\ current' = s.current
         /\ yielded' = yielded \o s.out
         /\ result' = result + (IF s.out = <<>> THEN 0 ELSE length(s.out[1]))
    /\ UNCHANGED <<mergeOverlapping, totalBedLength, remerged, bedPc>>
    /\ UNCHANGED vcfVars

\* the file is exhausted: the generator's code after the loop, the last
\* result += length, return result, and loadFromFile's assignment
TotalBedReturn ==
    /\ bedPc = "loop"
    /\ mergeOverlapping = TotalMergeOverlapping
    /\ LET out == ReadBedFileEnd(mergeOverlapping, current)
           res == result + (IF out = <<>> THEN 0 ELSE length(out[1]))
       IN  /\ yielded' = yielded \o out
           /\ result' = res
           /\ totalBedLength' = res
    /\ bedPc' = "done"
    /\ UNCHANGED <<bedLines, mergeOverlapping, current, remerged>>
    /\ UNCHANGED vcfVars

\* readBedFile(path, mergeOverlapping=True) driven by a consumer that
\* collects the records: one iteration of the generator's loop
MergeBedLine ==
    /\ bedPc = "loop"
    /\ mergeOverlapping
    /\ Len(bedLines) < MaxIntervals
    /\ \E bedLine \in WellFormedBedLines :
         LET s == ReadBedFileStep(mergeOverlapping, current, bedLine) IN
         /\ bedLines' = Append(bedLines, bedLine)
         /\ current' = s.current
         /\ yielded' = yielded \o s.out
    /\ UNCHANGED <<mergeOverlapping, result, totalBedLength, remerged, bedPc>>
    /\ UNCHANGED vcfVars

\* the file is exhausted: the generator's code after the loop
MergeBedEnd ==
    /\ bedPc = "loop"
    /\ mergeOverlapping
    /\ yielded' = yielded \o ReadBedFileEnd(mergeOverlapping, current)
    /\ bedPc' = "exhausted"
    /\ UNCHANGED <<bedLines, mergeOverlapping, current, result, totalBedLength,
                   remerged>>
    /\ UNCHANGED vcfVars

\* the emitted records written out and read by a second merging pass
RemergeBed ==
    /\ bedPc = "exhausted"
    /\ remerged' = readBedFile(AsBedLines(yielded), TRUE)
    /\ bedPc' = "remerged"
    /\ UNCHANGED <<bedLines, mergeOverlapping, current, yielded, result,
                   totalBedLength>>
    /\ UNCHANGED vcfVars

NextBed ==
    \/ TotalBedLine
    \/ TotalBedReturn
    \/ MergeBedLine
    \/ MergeBedEnd
    \/ RemergeBed

(***************************************************************************)
(* Specifications                                                          *)
(***************************************************************************)
NextVcf ==
    \/ RunHeader
    \/ RunNoGenotype
    \/ RunNotVariant
    \/ RunCount
    \/ RunReturn

\* the VCF pass; the BED pass does not run
Init == InitVcf /\ InitBed /\ mergeOverlapping = TotalMergeOverlapping
Next == NextVcf
Spec == Init /\ [][Next]_vars

\* the VCF pass over a file with lines of any shape
NextDecode ==
    \/ DecodeHeader
    \/ DecodeNoGenotype
    \/ DecodeNotVariant
    \/ DecodeCount
    \/ DecodeRaise
    \/ DecodeRaiseInCount
    \/ RunReturn

InitDecode == Init
SpecDecode == InitDecode /\ [][NextDecode]_vars

\* the BED pass; the VCF pass does not run
InitBedPass == InitBed /\ InitVcf
SpecBed == InitBedPass /\ [][NextBed]_vars

(***************************************************************************)
(* Properties of the BED pass                                              *)
(***************************************************************************)
\* the input precondition of the merger: lines grouped by reference and
\* sorted by non-decreasing begin within each group
GroupedSorted(lines) ==
    \A i, j \in 1..Len(lines) :
        (i < j /\ lines[i][1] = lines[j][1]) =>
            /\ lines[i][2] <= lines[j][2]
            /\ \A k \in i..j : lines[k][1] = lines[i][1]

\* the (reference, position) pairs a sequence of records covers
Covered(rs) ==
    UNION { { <<rs[i].ref, p>> : p \in rs[i].beginPos..(rs[i].endPos - 1) }
            : i \in 1..Len(rs) }

PairwiseDisjoint(rs) ==
    \A i, j \in 1..Len(rs) :
        i # j => Covered(<<rs[i]>>) \cap Covered(<<rs[j]>>) = {}

RECURSIVE SumLength(_)
SumLength(rs) == IF rs = <<>> THEN 0 ELSE length(Head(rs)) + SumLength(Tail(rs))

\* C1: the total target length that loadFromFile stores equals the sum of
\* the lengths of the merged, disjoint intervals of the file, every covered
\* position counted once.
C1_TotalIsMergedLength ==
    (bedPc = "done" /\ GroupedSorted(bedLines)) =>
        /\ totalBedLength = SumLength(readBedFile(bedLines, TRUE))
        /\ totalBedLength = Cardinality(Covered(readBedFile(bedLines, FALSE)))

\* C2: for grouped and sorted input the records emitted by the merging pass
\* are pairwise disjoint and cover exactly the positions the input covers.
C2_MergeDisjointAndCovering ==
    (bedPc \in {"exhausted", "remerged"} /\ GroupedSorted(bedLines)) =>
        /\ PairwiseDisjoint(yielded)
        /\ Covered(yielded) = Covered(readBedFile(bedLines, FALSE))

\* a merging pass over three sorted lines, two references, that merged some
\* lines and kept others apart
C2_Witness ==
    /\ bedPc = "exhausted"
    /\ GroupedSorted(bedLines)
    /\ Len(bedLines) = 3
    /\ Len(yielded) = 2
    /\ \E i \in 1..2 : overlapsWith(ParseBedLine(bedLines[i]),
                                    ParseBedLine(bedLines[i + 1]))

\* C3: merging is idempotent: a second merging pass over the emitted
\* records emits the identical sequence, hence the same total length.
C3_MergeIdempotent ==
    (bedPc = "remerged" /\ GroupedSorted(bedLines)) =>
        /\ remerged = yielded
        /\ SumLength(remerged) = SumLength(yielded)

\* a second pass over an output of two records that came from a real merge
C3_Witness ==
    /\ bedPc = "remerged"
    /\ GroupedSorted(bedLines)
    /\ Len(yielded) >= 2
    /\ Len(yielded) < Len(bedLines)

(***************************************************************************)
(* Properties of the VCF pass                                              *)
(***************************************************************************)
\* this step is one turn of run's loop (the record it took is lineFields')
TookLine == nLines' = nLines + 1

\* a record run skips: no GT format field, or both resolved alleles equal ref
IsSkipped(r) ==
    /\ ~r.header
    /\ \/ ~HasGT(r)
       \/ LET g == Genotypes(r) IN g[1] = r.ref /\ g[2] = r.ref

\* C4: heterozygous + homozygous equals the number of accepted records, and
\* every accepted record adds exactly 1 to exactly one of the two,
\* homozygous iff its two resolved alleles are equal.
C4_ZygositySum ==
    vcf_stats.heterozygous + vcf_stats.homozygous = accepted

C4_ZygosityStep ==
    (TookLine /\ IsAccepted(lineFields')) =>
        LET g == Genotypes(lineFields') IN
        /\ vcf_stats'.homozygous =
             vcf_stats.homozygous + BoolInt(g[1] = g[2])
        /\ vcf_stats'.heterozygous =
             vcf_stats.heterozygous + BoolInt(g[1] # g[2])

C4_ZygosityPartition == []C4_ZygositySum /\ [][C4_ZygosityStep]_vars

\* the pass returned after one heterozygous and one homozygous record
C4_Witness ==
    /\ vcfPc = "returned"
    /\ accepted = 2
    /\ vcf_stats.heterozygous = 1
    /\ vcf_stats.homozygous = 1

\* C5: dbsnp_count + no_dbsnp_count is at most the number of accepted
\* records, equal to it exactly when every accepted record has both alleles
\* of length 1; such a record adds 1 to dbsnp_count if its info set holds
\* the token DB and 1 to no_dbsnp_count otherwise, never to both.
C5_DbSnpSum ==
    LET known == vcf_stats.dbsnp_count + vcf_stats.no_dbsnp_count IN
    /\ known <= accepted
    /\ (known = accepted) <=> (acceptedSnvShaped = accepted)

C5_DbSnpStep ==
    (TookLine /\ IsAccepted(lineFields') /\ IsSnvShaped(lineFields')) =>
        LET known == DB \in lineFields'.info IN
        /\ vcf_stats'.dbsnp_count = vcf_stats.dbsnp_count + BoolInt(known)
        /\ vcf_stats'.no_dbsnp_count =
             vcf_stats.no_dbsnp_count + BoolInt(~known)

C6_SkipStep ==
    (TookLine /\ IsSkipped(lineFields')) =>
        /\ vcf_stats' = vcf_stats
        /\ vcfPc' = "loop"

C6_SkipLeavesStats == [][C6_SkipStep]_vars

\* a skipped record with DB and EFFECT tokens, taken after a counted one
C6_Witness ==
    /\ nLines = 2
    /\ accepted = 1
    /\ IsSkipped(lineFields)
    /\ DB \in lineFields.info
    /\ \E f \in lineFields.info : startswith(f, EFFECT)
    /\ vcf_stats.heterozygous + vcf_stats.homozygous = 1

\* an allele the variant-kind rule counts as an insertion or a deletion
IsIndelAllele(gt, ref) ==
    /\ gt # ref
    /\ ~(Len(gt) = 1 /\ Len(ref) = 1)
    /\ Len(gt) # Len(ref)

\* C7: an accepted record whose genotype holds an insertion or deletion
\* allele, or whose two alleles differ in length, changes neither
\* dbsnp_count nor no_dbsnp_count.
C7_IndelStep ==
    (/\ TookLine
     /\ IsAccepted(lineFields')
     /\ LET g == Genotypes(lineFields') IN
        \/ IsIndelAllele(g[1], lineFields'.ref)
        \/ IsIndelAllele(g[2], lineFields'.ref)
        \/ Len(g[1]) # Len(g[2]))
    => /\ vcf_stats'.dbsnp_count = vcf_stats.dbsnp_count
       /\ vcf_stats'.no_dbsnp_count = vcf_stats.no_dbsnp_count

C7_DbSnpOnlySnv == [][C7_IndelStep]_vars

\* case-insensitive: the base c is the upper-case letter u
SameBase(c, u) ==
    c = u \/ <<c, u>> \in { <<"a", "A">>, <<"c", "C">>, <<"g", "G">>, <<"t", "T">> }

\* allele+ref, upper-cased, is one of GA, AG, TC, CT
IsTransition(gt, ref) ==
    \E p \in { <<"G", "A">>, <<"A", "G">>, <<"T", "C">>, <<"C", "T">> } :
        SameBase(gt[1], p[1]) /\ SameBase(ref[1], p[2])

\* the allele slots of a record that the transition rule counts
TransSlots(r) ==
    { k \in 1..2 : /\ Len(Genotypes(r)[k]) = 1
                   /\ Len(r.ref) = 1
                   /\ Genotypes(r)[k] # r.ref }

\* C8: each of the two allele slots is tested on its own: a slot whose
\* allele has length 1, with ref of length 1 and allele # ref, adds 1 to
\* transitions or to transversions, to transitions iff upper-cased
\* allele+ref is one of GA, AG, TC, CT.  So transitions + transversions
\* equals snv_count plus the number of accepted homozygous SNV records.
C8_TransSum ==
    vcf_stats.transitions + vcf_stats.transversions
        = vcf_stats.snv_count + acceptedHomSnv

C8_TransStep ==
    (TookLine /\ IsAccepted(lineFields')) =>
        LET r == lineFields'
            ts == { k \in TransSlots(r) : IsTransition(Genotypes(r)[k], r.ref) }
        IN  /\ vcf_stats'.transitions =
                 vcf_stats.transitions + Cardinality(ts)
            /\ vcf_stats'.transversions =
                 vcf_stats.transversions + Cardinality(TransSlots(r) \ ts)
            /\ (IsHomSnv(r) =>
                  /\ vcf_stats'.transitions + vcf_stats'.transversions
                       = vcf_stats.transitions + vcf_stats.transversions + 2
                  /\ vcf_stats'.snv_count = vcf_stats.snv_count + 1)

C8_TransPerSlot == []C8_TransSum /\ [][C8_TransStep]_vars

\* a homozygous SNV: one SNV, two transitions/transversions
C8_Witness ==
    /\ IsAccepted(lineFields)
    /\ IsHomSnv(lineFields)
    /\ vcf_stats.snv_count = 1
    /\ vcf_stats.transitions + vcf_stats.transversions = 2

\* num_annos[v], 0 for a label never seen
AnnoCount(num_annos, v) == IF v \in DOMAIN num_annos THEN num_annos[v] ELSE 0

RECURSIVE Occurrences(_, _)
Occurrences(v, values) ==
    IF values = <<>>
      THEN 0
      ELSE BoolInt(Head(values) = v) + Occurrences(v, Tail(values))

\* how often the label v stands in the values of the info tokens whose key
\* (the text before '=') is exactly EFFECT
RECURSIVE EffectOccurrences(_, _)
EffectOccurrences(v, info) ==
    IF info = {}
      THEN 0
      ELSE LET f  == CHOOSE x \in info : TRUE
               kv == split1(f, "=")
           IN  (IF Len(kv) = 2 /\ kv[1] = EFFECT
                  THEN Occurrences(v, split(kv[2], ","))
                  ELSE 0)
               + EffectOccurrences(v, info \ {f})

AnnoLabels == { <<"a">>, <<"b">> }

\* C9: the annotation tally counts exactly the info tokens whose key is
\* exactly EFFECT, once per label of the value (repeats counted); a token
\* with any other key, also one that only begins with EFFECT, changes no
\* entry of num_annos.
C9_EffectStep ==
    (TookLine /\ IsAccepted(lineFields')) =>
        \A v \in AnnoLabels \cup DOMAIN vcf_stats'.num_annos :
            AnnoCount(vcf_stats'.num_annos, v)
              = AnnoCount(vcf_stats.num_annos, v)
                  + EffectOccurrences(v, lineFields'.info)

C9_ExactEffectKey == [][C9_EffectStep]_vars

\* the alleles of a record that the variant-kind rule classifies: the first
\* only when both are the same string, none that equals ref
KindSlots(r) ==
    LET g == Genotypes(r) IN
    { k \in (IF g[1] = g[2] THEN {1} ELSE {1, 2}) : g[k] # r.ref }

\* C10: variant-kind counting visits the two alleles, only the first when
\* both are the same string, and skips an allele equal to ref; every other
\* allele adds 1 to snv_count (allele and ref of length 1), ins_count
\* (allele longer than ref) or del_count (shorter), and to none when both
\* have the same length greater than 1.  One record adds at most 2 to the
\* three together, at most 1 when it is homozygous.
C10_KindStep ==
    (TookLine /\ IsAccepted(lineFields')) =>
        LET r    == lineFields'
            g    == Genotypes(r)
            snv  == { k \in KindSlots(r) : Len(g[k]) = 1 /\ Len(r.ref) = 1 }
            ins  == { k \in KindSlots(r) : Len(g[k]) > Len(r.ref) }
            del  == { k \in KindSlots(r) : Len(g[k]) < Len(r.ref) }
            kinds(s) == s.snv_count + s.ins_count + s.del_count
        IN  /\ vcf_stats'.snv_count = vcf_stats.snv_count + Cardinality(snv)
            /\ vcf_stats'.ins_count = vcf_stats.ins_count + Cardinality(ins)
            /\ vcf_stats'.del_count = vcf_stats.del_count + Cardinality(del)
            /\ kinds(vcf_stats') <= kinds(vcf_stats) + 2
            /\ (g[1] = g[2] => kinds(vcf_stats') <= kinds(vcf_stats) + 1)

C10_VariantKind == [][C10_KindStep]_vars

\* a het record of an SNV and an insertion, and a record whose only variant
\* allele has ref's length (2) and is counted nowhere
C10_Witness ==
    /\ nLines = 2
    /\ accepted = 2
    /\ vcf_stats.snv_count = 1
    /\ vcf_stats.ins_count = 1
    /\ vcf_stats.del_count = 0
    /\ Len(lineFields.ref) = 2

(***************************************************************************)
(* C11: decoding is fail-fast                                              *)
(***************************************************************************)
\* a str of decimal digits: an allele index as VCF writes it
IsIndex(s) == s # <<>> /\ \A i \in 1..Len(s) : s[i] \in Digits

\* the GT sub-field of the record is two allele indices joined by '/', each
\* of them a position in [ref] + alts
TwoAlleleIndices(r) ==
    /\ r.fmt[GT] < Len(r.call)
    /\ LET indices == split(r.call[r.fmt[GT] + 1], "/") IN
       /\ Len(indices) = 2
       /\ \A k \in 1..2 :
            IsIndex(indices[k]) /\ int(indices[k]) <= Len(r.alts)

\* a record the claim calls undecodable
Undecodable(r) ==
    /\ ~IsHeader(r.line)
    /\ \/ Len(r.line) < 10
       \/ HasGT(r) /\ ~TwoAlleleIndices(r)

\* a record of two allele indices that both resolve to ref
IsRefRef(r) ==
    /\ HasGT(r)
    /\ TwoAlleleIndices(r)
    /\ LET g == Genotypes(r) IN g[1] = r.ref /\ g[2] = r.ref

C11_AbortStep ==
    (TookLine /\ Undecodable(lineFields')) => vcfPc' = "aborted"

C11_DropStep ==
    (TookLine /\ ~IsHeader(lineFields'.line) /\ vcfPc' = "loop"
              /\ vcf_stats' = vcf_stats)
        => (~HasGT(lineFields') \/ IsRefRef(lineFields'))

\* C11: a non-header record with fewer than 10 columns, or whose GT sub-field
\* is not two integer allele indices joined by '/' that resolve within
\* [ref] + alts, aborts run: no later record is processed and nothing is
\* returned; a record is dropped with processing continuing only when GT is
\* missing from the format or the genotype is ref/ref.
C11_FailFast ==
    [][/\ C11_AbortStep
       /\ C11_DropStep
       /\ vcfPc # "aborted"]_vars

====
